---- MODULE Spec2Model ----
(***************************************************************************)
(* Model of the chess multiplayer server (chess_server_render.py): the     *)
(* four module-level stores, the per-game ServerGameState objects and the  *)
(* Socket.IO event handlers.  A handler is a function from the stores and  *)
(* its payload to the stores it leaves and the events it emits; the        *)
(* actions run one handler at a time.  A second set of actions runs the    *)
(* handlers in threads, one statement at a time (SpecRace).                 *)
(*                                                                         *)
(* games holds every ServerGameState object that was built, by game id;    *)
(* active_games holds the ids that are keys of the dict of that name,      *)
(* whose value for g is games[g].  An object whose key was deleted stays   *)
(* in games as the handler that held it last left it.                      *)
(*                                                                         *)
(* Strings of the program are modelled as tuples of one-character strings, *)
(* so that strip() and the [:20] slice act on them as in Python; the       *)
(* empty string "" is the empty tuple << >>.                               *)
(***************************************************************************)
EXTENDS Integers, Sequences, FiniteSets, TLC

\* ------------------------------------------------------------------ bounds
\* Number of transport connections (request.sid values) that can be live.
NumConns == 3
\* Number of games that can ever be created (uuid4 values handed out).
MaxGames == 2
\* Cap on move_count, which the program lets grow without limit.
MaxMoves == 2
\* The same two caps for the specification with three player names.
WideGames == 1
WideMoves == 1
\* The specification with three names on two connections.
CrossConns == 2
CrossGames == 2
CrossMoves == 1
\* The specification with threads: connections, handlers started as
\* threads, games and moves.
RaceConns == 2
RaceThreads == 2
RaceGames == 1
RaceMoves == 2

\* ------------------------------------------------------- program constants
\* register_player keeps at most this many characters of a name.
NameLimit == 20
\* Board extents of is_valid_move_basic: 0 <= x < 16, 0 <= y < 10.
BoardWidth == 16
BoardHeight == 10

Conns == 1..NumConns

\* ------------------------------------------------------------------ inputs
Whitespace == {" ", "\t"}

LongRaw == [i \in 1..(NameLimit + 1) |-> "c"]

\* Raw 'name' payloads of register_player: empty, blank, plain and padded.
RawNames ==
    { << >>,
      <<" ", "\t">>,
      <<"a">>,
      <<" ", "a", " ">>,
      <<"b">> }

\* The same with a third name, one that is longer than the limit.
WideRawNames == RawNames \cup {LongRaw}

\* from_pos / to_pos payloads of make_move: on the board and off each edge.
MoveInputs ==
    { <<<<0, 0>>, <<0, 1>>>>,
      <<<<0, 0>>, <<0, 99>>>>,
      <<<<16, 0>>, <<0, 0>>>>,
      <<<<0, -1>>, <<0, 0>>>>,
      <<<<0, 0>>, <<-1, 0>>>> }

\* ------------------------------------------------------------ str helpers
RECURSIVE lstrip(_)
lstrip(s) ==
    IF s # << >> /\ Head(s) \in Whitespace THEN lstrip(Tail(s)) ELSE s

RECURSIVE rstrip(_)
rstrip(s) ==
    IF s # << >> /\ s[Len(s)] \in Whitespace
    THEN rstrip(SubSeq(s, 1, Len(s) - 1))
    ELSE s

strip(s) == rstrip(lstrip(s))

\* s[:n]
Prefix(s, n) == SubSeq(s, 1, IF Len(s) < n THEN Len(s) ELSE n)

\* data.get('name', '').strip()[:20]
Sanitize(raw) == Prefix(strip(raw), NameLimit)

\* list.remove(x): drops the first occurrence of x.
RECURSIVE ListRemove(_, _)
ListRemove(s, x) ==
    IF s = << >> THEN << >>
    ELSE IF Head(s) = x THEN Tail(s)
    ELSE <<Head(s)>> \o ListRemove(Tail(s), x)

InList(x, s) == \E i \in 1..Len(s) : s[i] = x

\* d with key k bound to v (d[k] = v on a dict).
DictSet(d, k, v) == [x \in (DOMAIN d) \cup {k} |-> IF x = k THEN v ELSE d[x]]

\* d without key k (del d[k]).
DictDel(d, k) == [x \in (DOMAIN d) \ {k} |-> d[x]]

EmptyDict == [x \in {} |-> 0]

\* ------------------------------------------------------- ServerGameState
WhitePieces ==
    <<"rook", "rook", "knight", "knight", "bishop", "bishop", "king", "queen",
      "bishop", "bishop", "knight", "knight", "rook", "rook">>
    \o [i \in 1..16 |-> "pawn"]

BlackPieces ==
    <<"rook", "rook", "knight", "knight", "bishop", "bishop", "queen", "king",
      "bishop", "bishop", "knight", "knight", "rook", "rook">>
    \o [i \in 1..16 |-> "pawn"]

\* [(i, j) for i in range(16) for j in rows if (i, j) not in skip][:16]
PawnSquares(rows, skip) ==
    LET all == [n \in 1..(BoardWidth * 2) |->
                    <<(n - 1) \div 2, rows[((n - 1) % 2) + 1]>>]
        kept == SelectSeq(all, LAMBDA p : p \notin skip)
    IN  SubSeq(kept, 1, 16)

WhiteLocations ==
    <<<<0, 0>>, <<1, 0>>, <<4, 1>>, <<5, 1>>, <<4, 0>>, <<5, 0>>, <<8, 0>>,
      <<7, 0>>, <<10, 0>>, <<11, 0>>, <<10, 1>>, <<11, 1>>, <<14, 0>>,
      <<15, 0>>>>
    \o PawnSquares(<<1, 2>>, {<<4, 1>>, <<5, 1>>, <<10, 1>>, <<11, 1>>})

BlackLocations ==
    <<<<0, 9>>, <<1, 9>>, <<4, 8>>, <<5, 8>>, <<4, 9>>, <<5, 9>>, <<7, 9>>,
      <<8, 9>>, <<10, 9>>, <<11, 9>>, <<10, 8>>, <<11, 8>>, <<14, 9>>,
      <<15, 9>>>>
    \o PawnSquares(<<8, 7>>, {<<4, 8>>, <<5, 8>>, <<10, 8>>, <<11, 8>>})

\* ServerGameState.__init__
NewGameState(game_id, player_white, player_black) ==
    [ game_id         |-> game_id,
      player_white    |-> player_white,
      player_black    |-> player_black,
      game_status     |-> "waiting",
      turn_step       |-> 0,
      move_count      |-> 0,
      winner          |-> << >>,
      game_over       |-> FALSE,
      white_pieces    |-> WhitePieces,
      black_pieces    |-> BlackPieces,
      white_locations |-> WhiteLocations,
      black_locations |-> BlackLocations ]

\* ServerGameState.to_dict
to_dict(game) ==
    [ game_id         |-> game.game_id,
      player_white    |-> game.player_white,
      player_black    |-> game.player_black,
      game_status     |-> game.game_status,
      turn_step       |-> game.turn_step,
      move_count      |-> game.move_count,
      winner          |-> game.winner,
      game_over       |-> game.game_over,
      white_pieces    |-> game.white_pieces,
      black_pieces    |-> game.black_pieces,
      white_locations |-> game.white_locations,
      black_locations |-> game.black_locations ]

\* get_current_player with '<=' for '<': it never answers 'black'.
get_current_player_stuck(game) == IF game.turn_step <= 2 THEN "white" ELSE "black"

\* ServerGameState.get_current_player
get_current_player(game) == IF game.turn_step < 2 THEN "white" ELSE "black"

\* is_valid_move_basic without its test of to_pos.
is_valid_move_from_only(from_pos, to_pos) ==
    0 <= from_pos[1] /\ from_pos[1] < BoardWidth
    /\ 0 <= from_pos[2] /\ from_pos[2] < BoardHeight

\* ServerGameState.is_valid_move_basic
is_valid_move_basic(from_pos, to_pos) ==
    IF ~(0 <= from_pos[1] /\ from_pos[1] < BoardWidth
         /\ 0 <= from_pos[2] /\ from_pos[2] < BoardHeight)
    THEN FALSE
    ELSE IF ~(0 <= to_pos[1] /\ to_pos[1] < BoardWidth
              /\ 0 <= to_pos[2] /\ to_pos[2] < BoardHeight)
    THEN FALSE
    ELSE TRUE

\* ------------------------------------------------------------------ state
VARIABLES
    connected,        \* sids of the live transport connections
    games,            \* game_id -> ServerGameState object, for every object built
    active_games,     \* the keys of the active_games dict (it maps g to games[g])
    player_sessions,  \* sid -> player name
    player_games,     \* player name -> game_id
    waiting_players,  \* list of player names
    next_game,        \* how many uuid4 game ids have been handed out
    movers,           \* game_id -> names whose make_move was accepted, in order
    ended,            \* game_id -> number of game_ended events emitted to its room
    threads           \* the frames of the handlers started as threads, in order

vars == <<connected, games, active_games, player_sessions, player_games,
          waiting_players, next_game, movers, ended, threads>>

\* The stores the handlers read and write, as one value.
Stores ==
    [ games           |-> games,
      active_games    |-> active_games,
      player_sessions |-> player_sessions,
      player_games    |-> player_games,
      waiting_players |-> waiting_players,
      next_game       |-> next_game ]

\* emit(event, data) answers the requesting sid; socketio.emit(..., room=g)
\* goes to the room of game g.
ToSid(sid, event, data) == [to |-> <<"sid", sid>>, event |-> event, data |-> data]
ToRoom(g, event, data) == [to |-> <<"room", g>>, event |-> event, data |-> data]
Error(sid, message) == ToSid(sid, "error", [message |-> message])

\* What a handler leaves: the stores and the events it emitted, in order.
Outcome(st, emits) == [st |-> st, emits |-> emits]

\* The frame of a thread before its handler has set anything.
NoThread ==
    [ pc             |-> "idle",
      sid            |-> 0,
      player_name    |-> << >>,
      game_id        |-> 0,
      game           |-> 0,
      opponent       |-> << >>,
      current_player |-> "",
      mv             |-> << >>,
      raised         |-> "" ]

Init ==
    /\ connected = {}
    /\ games = EmptyDict
    /\ active_games = {}
    /\ player_sessions = EmptyDict
    /\ player_games = EmptyDict
    /\ waiting_players = << >>
    /\ next_game = 0
    /\ movers = EmptyDict
    /\ ended = EmptyDict
    /\ threads = << >>

\* ---------------------------------------------------------------- handlers
\* @socketio.on('connect')
handle_connect(st, sid) ==
    Outcome(st, <<ToSid(sid, "connection_response",
                        [status |-> "connected", session_id |-> sid])>>)

\* The status write of handle_disconnect as a switch: a disconnect on a
\* paused game sets it back to 'active'.
PauseOrResumeGame(objs, game_id) ==
    [objs EXCEPT ![game_id].game_status =
                     IF @ = "paused" THEN "active" ELSE "paused"]

\* The 'paused' write of handle_disconnect on the game the player maps to.
PauseGame(objs, game_id) ==
    [objs EXCEPT ![game_id].game_status = "paused"]

\* handle_disconnect's closing 'if player_name in player_games: del ...'.
DropPlayerGame(pgames, player_name) ==
    IF player_name \in DOMAIN pgames THEN DictDel(pgames, player_name) ELSE pgames

\* handle_disconnect without its 'del player_sessions[session_id]'.
KeepSession(sessions, sid) == sessions

\* handle_disconnect's 'del player_sessions[session_id]'.
DropSession(sessions, sid) == DictDel(sessions, sid)

\* @socketio.on('disconnect')
handle_disconnect(st, sid) ==
    IF sid \in DOMAIN st.player_sessions
    THEN LET player_name == st.player_sessions[sid]
             waiting == IF InList(player_name, st.waiting_players)
                        THEN ListRemove(st.waiting_players, player_name)
                        ELSE st.waiting_players
             in_game == /\ player_name \in DOMAIN st.player_games
                        /\ st.player_games[player_name] \in st.active_games
             game_id == st.player_games[player_name]
         IN  Outcome(
                 [st EXCEPT
                    !.waiting_players = waiting,
                    !.games = IF in_game THEN PauseGame(@, game_id) ELSE @,
                    !.player_sessions = DropSession(@, sid),
                    !.player_games = DropPlayerGame(@, player_name)],
                 IF in_game
                 THEN <<ToRoom(game_id, "player_disconnected",
                               [player |-> player_name, game_status |-> "paused"])>>
                 ELSE << >>)
    ELSE Outcome(st, << >>)

\* @socketio.on('register_player'), data = {name: raw}
handle_register_player(st, sid, raw) ==
    LET player_name == Sanitize(raw)
    IN  IF player_name = << >>
        THEN Outcome(st, <<Error(sid, "Invalid player name")>>)
        ELSE Outcome([st EXCEPT !.player_sessions = DictSet(@, sid, player_name)],
                     <<ToSid(sid, "registration_success",
                             [player_name |-> player_name])>>)

\* handle_find_game's 'Already in a game' test.
AlreadyInGame(st, player_name) ==
    /\ player_name \in DOMAIN st.player_games
    /\ st.player_games[player_name] \in st.active_games

\* The pairing test with '==' for '!='.
CanPairOnlyOneself(waiting, player_name) ==
    waiting # << >> /\ Head(waiting) = player_name

\* The pairing test without 'waiting_players[0] != player_name'.
CanPairWithAnyHead(waiting, player_name) == waiting # << >>

\* handle_find_game's 'if waiting_players and waiting_players[0] != player_name'.
CanPair(waiting, player_name) ==
    waiting # << >> /\ Head(waiting) # player_name

\* waiting_players[0] read in place of waiting_players.pop(0).
AfterPopKeep(waiting) == waiting

\* waiting_players after pop(0).
AfterPop(waiting) == Tail(waiting)

\* The game built with the two sides exchanged.
CreateGameSwapped(game_id, player_name, opponent) ==
    [NewGameState(game_id, opponent, player_name) EXCEPT !.game_status = "active"]

\* The ServerGameState handle_find_game builds: the requester is white, the
\* popped opponent is black, and the status is set to 'active'.
CreateGame(game_id, player_name, opponent) ==
    [NewGameState(game_id, player_name, opponent) EXCEPT !.game_status = "active"]

\* @socketio.on('find_game'); str(uuid.uuid4()) is the next unused game id.
handle_find_game(st, sid) ==
    IF sid \notin DOMAIN st.player_sessions
    THEN Outcome(st, <<Error(sid, "Player not registered")>>)
    ELSE LET player_name == st.player_sessions[sid]
         IN  IF AlreadyInGame(st, player_name)
             THEN Outcome(st, <<Error(sid, "Already in a game")>>)
             ELSE IF CanPair(st.waiting_players, player_name)
             THEN LET opponent == Head(st.waiting_players)
                      game_id == st.next_game + 1
                      game == CreateGame(game_id, player_name, opponent)
                  IN  Outcome(
                          [st EXCEPT
                             !.waiting_players = AfterPop(@),
                             !.next_game = game_id,
                             !.games = DictSet(@, game_id, game),
                             !.active_games = @ \cup {game_id},
                             !.player_games =
                                 DictSet(DictSet(@, player_name, game_id),
                                         opponent, game_id)],
                          <<ToRoom(game_id, "game_started", to_dict(game))>>)
             ELSE Outcome(
                      [st EXCEPT
                         !.waiting_players =
                             IF ~InList(player_name, @)
                             THEN Append(@, player_name)
                             ELSE @],
                      <<ToSid(sid, "waiting_for_opponent",
                              [message |-> "Waiting for an opponent..."])>>)

\* handle_make_move's 'Not your turn' test.
NotYourTurn(game, player_name) ==
    \/ get_current_player(game) = "white" /\ player_name # game.player_white
    \/ get_current_player(game) = "black" /\ player_name # game.player_black

\* handle_make_move's update of an accepted move.
ApplyMove(game) ==
    [game EXCEPT !.move_count = @ + 1,
                 !.turn_step = (@ + 2) % 4]

\* @socketio.on('make_move'), data = {game_id, from_pos: mv[1], to_pos: mv[2]}
handle_make_move(st, sid, game_id, mv) ==
    IF sid \notin DOMAIN st.player_sessions
    THEN Outcome(st, <<Error(sid, "Player not registered")>>)
    ELSE IF game_id \notin st.active_games
    THEN Outcome(st, <<Error(sid, "Game not found")>>)
    ELSE LET player_name == st.player_sessions[sid]
             game == st.games[game_id]
         IN  IF NotYourTurn(game, player_name)
             THEN Outcome(st, <<Error(sid, "Not your turn")>>)
             ELSE IF is_valid_move_basic(mv[1], mv[2])
             THEN LET moved == ApplyMove(game)
                  IN  Outcome(
                          [st EXCEPT !.games = [@ EXCEPT ![game_id] = moved]],
                          <<ToRoom(game_id, "move_update",
                                   [type |-> "move_made",
                                    game_state |-> to_dict(moved),
                                    move |-> [game_id |-> game_id,
                                              from_pos |-> mv[1],
                                              to_pos |-> mv[2]]])>>)
             ELSE Outcome(st, <<Error(sid, "Invalid move")>>)

\* handle_forfeit's 'Determine winner'.
ForfeitWinner(game, player_name) ==
    IF player_name = game.player_white
    THEN game.player_black
    ELSE game.player_white

\* cleanup_game without its two deletions from player_games.
cleanup_game_keep_mappings(st, game_id) ==
    IF game_id \in st.active_games
    THEN [st EXCEPT !.active_games = @ \ {game_id}]
    ELSE st

\* cleanup_game
cleanup_game(st, game_id) ==
    IF game_id \in st.active_games
    THEN LET game == st.games[game_id]
             pg1 == IF game.player_white \in DOMAIN st.player_games
                    THEN DictDel(st.player_games, game.player_white)
                    ELSE st.player_games
             pg2 == IF game.player_black \in DOMAIN pg1
                    THEN DictDel(pg1, game.player_black)
                    ELSE pg1
         IN  [st EXCEPT !.player_games = pg2,
                        !.active_games = @ \ {game_id}]
    ELSE st

\* @socketio.on('forfeit_game')
handle_forfeit(st, sid) ==
    IF sid \notin DOMAIN st.player_sessions
    THEN Outcome(st, <<Error(sid, "Player not registered")>>)
    ELSE LET player_name == st.player_sessions[sid]
         IN  IF player_name \notin DOMAIN st.player_games
             THEN Outcome(st, <<Error(sid, "Not in a game")>>)
             ELSE IF st.player_games[player_name] \notin st.active_games
             THEN Outcome(st, <<Error(sid, "Game not found")>>)
             ELSE LET game_id == st.player_games[player_name]
                      game == st.games[game_id]
                      over == [game EXCEPT
                                 !.winner = ForfeitWinner(game, player_name),
                                 !.game_over = TRUE,
                                 !.game_status = "finished"]
                  IN  Outcome(
                          cleanup_game([st EXCEPT !.games = [@ EXCEPT ![game_id] = over]],
                                       game_id),
                          <<ToRoom(game_id, "game_ended",
                                   [winner |-> over.winner,
                                    reason |-> "forfeit",
                                    forfeiter |-> player_name])>>)

\* ------------------------------------------------- handlers, by statement
\* The handlers again, one statement at a time, for the specification in
\* which the server runs each event in a thread of its own.  A frame holds a
\* running handler: pc names the line of the statement it executes next
\* (d = handle_disconnect, g = handle_find_game, mm = handle_make_move,
\* f = handle_forfeit, c = cleanup_game), the other fields are its local
\* variables, and raised is the exception that ended it, if any.  A step
\* takes the stores and a frame to the stores and the frame after the
\* statement.  Tests of local values and emits are taken together with the
\* statement before them.
Go(st, f, pc) == [st |-> st, f |-> [f EXCEPT !.pc = pc]]

\* return, or the end of the handler: the thread is over.
Return(st) == [st |-> st, f |-> [NoThread EXCEPT !.pc = "done"]]

\* An exception nothing catches: the thread stops at the statement.
Raise(st, f, exc) == [st |-> st, f |-> [NoThread EXCEPT !.pc = f.pc, !.raised = exc]]

\* The frame of a handler for connection sid after its first statement, the
\* test 'if session_id not in player_sessions', found the sid registered.
Enter(sid, pc) == [NoThread EXCEPT !.pc = pc, !.sid = sid]

\* handle_disconnect, lines 89-104
disconnect_step(st, f) ==
    CASE f.pc = "d89" ->
            IF f.sid \in DOMAIN st.player_sessions
            THEN Go(st, [f EXCEPT !.player_name = st.player_sessions[f.sid]], "d90")
            ELSE Raise(st, f, "KeyError")
      [] f.pc = "d90" ->
            IF InList(f.player_name, st.waiting_players)
            THEN Go(st, f, "d91")
            ELSE Go(st, f, "d93")
      [] f.pc = "d91" ->
            IF InList(f.player_name, st.waiting_players)
            THEN Go([st EXCEPT !.waiting_players = ListRemove(@, f.player_name)],
                    f, "d93")
            ELSE Raise(st, f, "ValueError")
      [] f.pc = "d93" ->
            IF f.player_name \in DOMAIN st.player_games
            THEN Go(st, f, "d94")
            ELSE Go(st, f, "d102")
      [] f.pc = "d94" ->
            IF f.player_name \in DOMAIN st.player_games
            THEN Go(st, [f EXCEPT !.game_id = st.player_games[f.player_name]], "d95")
            ELSE Raise(st, f, "KeyError")
      [] f.pc = "d95" ->
            IF f.game_id \in st.active_games
            THEN Go(st, f, "d96")
            ELSE Go(st, f, "d102")
      [] f.pc = "d96" ->
            IF f.game_id \in st.active_games
            THEN Go(st, [f EXCEPT !.game = f.game_id], "d97")
            ELSE Raise(st, f, "KeyError")
      [] f.pc = "d97" ->
            Go([st EXCEPT !.games = PauseGame(@, f.game)], f, "d102")
      [] f.pc = "d102" ->
            IF f.sid \in DOMAIN st.player_sessions
            THEN Go([st EXCEPT !.player_sessions = DropSession(@, f.sid)], f, "d103")
            ELSE Raise(st, f, "KeyError")
      [] f.pc = "d103" ->
            IF f.player_name \in DOMAIN st.player_games
            THEN Go(st, f, "d104")
            ELSE Return(st)
      [] f.pc = "d104" ->
            IF f.player_name \in DOMAIN st.player_games
            THEN Return([st EXCEPT !.player_games = DictDel(@, f.player_name)])
            ELSE Raise(st, f, "KeyError")

\* handle_find_game, lines 126-171; line 136 is taken together with the
\* construction of the game object (lines 139-145), which no other thread
\* can reach before line 147.
find_game_step(st, f) ==
    CASE f.pc = "g126" ->
            IF f.sid \in DOMAIN st.player_sessions
            THEN Go(st, [f EXCEPT !.player_name = st.player_sessions[f.sid]], "g128")
            ELSE Raise(st, f, "KeyError")
      [] f.pc = "g128" ->
            IF f.player_name \in DOMAIN st.player_games
            THEN Go(st, f, "g129")
            ELSE Go(st, f, "g135")
      [] f.pc = "g129" ->
            IF f.player_name \in DOMAIN st.player_games
            THEN Go(st, [f EXCEPT !.game_id = st.player_games[f.player_name]], "g130")
            ELSE Raise(st, f, "KeyError")
      [] f.pc = "g130" ->
            IF f.game_id \in st.active_games
            THEN Return(st)
            ELSE Go(st, f, "g135")
      [] f.pc = "g135" ->
            IF CanPair(st.waiting_players, f.player_name)
            THEN Go(st, f, "g136")
            ELSE Go(st, f, "g169")
      [] f.pc = "g136" ->
            IF st.waiting_players = << >>
            THEN Raise(st, f, "IndexError")
            ELSE LET opponent == Head(st.waiting_players)
                     game_id == st.next_game + 1
                 IN  Go([st EXCEPT
                            !.waiting_players = AfterPop(@),
                            !.next_game = game_id,
                            !.games = DictSet(@, game_id,
                                          CreateGame(game_id, f.player_name, opponent))],
                        [f EXCEPT !.opponent = opponent,
                                  !.game_id = game_id,
                                  !.game = game_id],
                        "g147")
      [] f.pc = "g147" ->
            Go([st EXCEPT !.active_games = @ \cup {f.game_id}], f, "g148")
      [] f.pc = "g148" ->
            Go([st EXCEPT !.player_games = DictSet(@, f.player_name, f.game_id)],
               f, "g149")
      [] f.pc = "g149" ->
            Return([st EXCEPT !.player_games = DictSet(@, f.opponent, f.game_id)])
      [] f.pc = "g169" ->
            IF ~InList(f.player_name, st.waiting_players)
            THEN Go(st, f, "g170")
            ELSE Return(st)
      [] f.pc = "g170" ->
            Return([st EXCEPT !.waiting_players = Append(@, f.player_name)])

\* handle_make_move, lines 181-214; f.game_id and f.mv are the payload.
make_move_step(st, f) ==
    CASE f.pc = "mm181" ->
            IF f.sid \in DOMAIN st.player_sessions
            THEN Go(st, [f EXCEPT !.player_name = st.player_sessions[f.sid]], "mm184")
            ELSE Raise(st, f, "KeyError")
      [] f.pc = "mm184" ->
            IF f.game_id \notin st.active_games
            THEN Return(st)
            ELSE Go(st, f, "mm188")
      [] f.pc = "mm188" ->
            IF f.game_id \in st.active_games
            THEN Go(st, [f EXCEPT !.game = f.game_id], "mm191")
            ELSE Raise(st, f, "KeyError")
      [] f.pc = "mm191" ->
            Go(st, [f EXCEPT !.current_player =
                                 get_current_player(st.games[f.game])], "mm192")
      [] f.pc = "mm192" ->
            LET game == st.games[f.game]
            IN  IF \/ f.current_player = "white" /\ f.player_name # game.player_white
                   \/ f.current_player = "black" /\ f.player_name # game.player_black
                THEN Return(st)
                ELSE IF is_valid_move_basic(f.mv[1], f.mv[2])
                THEN Go(st, f, "mm202")
                ELSE Return(st)
      [] f.pc = "mm202" ->
            Go([st EXCEPT !.games[f.game].move_count = @ + 1], f, "mm203")
      [] f.pc = "mm203" ->
            Return([st EXCEPT !.games[f.game].turn_step = (@ + 2) % 4])

\* handle_forfeit, lines 223-253, and the cleanup_game it calls, lines
\* 256-264.
forfeit_step(st, f) ==
    CASE f.pc = "f223" ->
            IF f.sid \in DOMAIN st.player_sessions
            THEN Go(st, [f EXCEPT !.player_name = st.player_sessions[f.sid]], "f225")
            ELSE Raise(st, f, "KeyError")
      [] f.pc = "f225" ->
            IF f.player_name \notin DOMAIN st.player_games
            THEN Return(st)
            ELSE Go(st, f, "f229")
      [] f.pc = "f229" ->
            IF f.player_name \in DOMAIN st.player_games
            THEN Go(st, [f EXCEPT !.game_id = st.player_games[f.player_name]], "f230")
            ELSE Raise(st, f, "KeyError")
      [] f.pc = "f230" ->
            IF f.game_id \notin st.active_games
            THEN Return(st)
            ELSE Go(st, f, "f234")
      [] f.pc = "f234" ->
            IF f.game_id \in st.active_games
            THEN Go(st, [f EXCEPT !.game = f.game_id], "f237")
            ELSE Raise(st, f, "KeyError")
      [] f.pc = "f237" ->
            Go([st EXCEPT !.games[f.game].winner =
                              ForfeitWinner(st.games[f.game], f.player_name)],
               f, "f242")
      [] f.pc = "f242" ->
            Go([st EXCEPT !.games[f.game].game_over = TRUE], f, "f243")
      [] f.pc = "f243" ->
            Go([st EXCEPT !.games[f.game].game_status = "finished"], f, "f246")
      [] f.pc = "f246" ->
            Go(st, f, "c256")
      [] f.pc = "c256" ->
            IF f.game_id \in st.active_games
            THEN Go(st, f, "c257")
            ELSE Return(st)
      [] f.pc = "c257" ->
            IF f.game_id \in st.active_games
            THEN Go(st, [f EXCEPT !.game = f.game_id], "c259")
            ELSE Raise(st, f, "KeyError")
      [] f.pc = "c259" ->
            IF st.games[f.game].player_white \in DOMAIN st.player_games
            THEN Go(st, f, "c260")
            ELSE Go(st, f, "c261")
      [] f.pc = "c260" ->
            IF st.games[f.game].player_white \in DOMAIN st.player_games
            THEN Go([st EXCEPT !.player_games =
                                   DictDel(@, st.games[f.game].player_white)],
                    f, "c261")
            ELSE Raise(st, f, "KeyError")
      [] f.pc = "c261" ->
            IF st.games[f.game].player_black \in DOMAIN st.player_games
            THEN Go(st, f, "c262")
            ELSE Go(st, f, "c264")
      [] f.pc = "c262" ->
            IF st.games[f.game].player_black \in DOMAIN st.player_games
            THEN Go([st EXCEPT !.player_games =
                                   DictDel(@, st.games[f.game].player_black)],
                    f, "c264")
            ELSE Raise(st, f, "KeyError")
      [] f.pc = "c264" ->
            IF f.game_id \in st.active_games
            THEN Return([st EXCEPT !.active_games = @ \ {f.game_id}])
            ELSE Raise(st, f, "KeyError")

\* ----------------------------------------------------------------- actions
\* The stores after a handler has run.
Leaves(r) ==
    /\ games' = r.st.games
    /\ active_games' = r.st.active_games
    /\ player_sessions' = r.st.player_sessions
    /\ player_games' = r.st.player_games
    /\ waiting_players' = r.st.waiting_players
    /\ next_game' = r.st.next_game

\* The events named event among emits.
Emitted(emits, event) == SelectSeq(emits, LAMBDA e : e.event = event)

\* d.get(k, 0) on a history counter.
CountOf(d, k) == IF k \in DOMAIN d THEN d[k] ELSE 0

\* d.get(k, []) on a history list.
ListOf(d, k) == IF k \in DOMAIN d THEN d[k] ELSE << >>

\* ended, with the game_ended events among emits counted by room.
CountEnded(emits) ==
    LET ends == Emitted(emits, "game_ended")
        rooms == {ends[i].to[2] : i \in 1..Len(ends)}
    IN  [g \in (DOMAIN ended) \cup rooms |->
            CountOf(ended, g) + Cardinality({i \in 1..Len(ends) : ends[i].to[2] = g})]

\* The transport opens connection sid and handle_connect runs.
Connect(sid) ==
    /\ sid \notin connected
    /\ connected' = connected \cup {sid}
    /\ Leaves(handle_connect(Stores, sid))
    /\ UNCHANGED <<movers, ended, threads>>

\* The transport closes connection sid and handle_disconnect runs.
Disconnect(sid) ==
    /\ sid \in connected
    /\ connected' = connected \ {sid}
    /\ Leaves(handle_disconnect(Stores, sid))
    /\ UNCHANGED <<movers, ended, threads>>

\* Connection sid sends register_player with name raw.
RegisterPlayer(sid, raw) ==
    /\ sid \in connected
    /\ Leaves(handle_register_player(Stores, sid, raw))
    /\ UNCHANGED <<connected, movers, ended, threads>>

\* Connection sid sends find_game.
FindGame(sid) ==
    /\ sid \in connected
    /\ Leaves(handle_find_game(Stores, sid))
    /\ UNCHANGED <<connected, movers, ended, threads>>

\* Connection sid sends make_move; an accepted move is noted in movers.
MakeMove(sid, game_id, mv) ==
    /\ sid \in connected
    /\ LET r == handle_make_move(Stores, sid, game_id, mv)
       IN  /\ Leaves(r)
           /\ movers' = IF Emitted(r.emits, "move_update") # << >>
                        THEN DictSet(movers, game_id,
                                     Append(ListOf(movers, game_id),
                                            player_sessions[sid]))
                        ELSE movers
    /\ UNCHANGED <<connected, ended, threads>>

\* Connection sid sends forfeit_game; a game_ended it emits is counted.
Forfeit(sid) ==
    /\ sid \in connected
    /\ LET r == handle_forfeit(Stores, sid)
       IN  /\ Leaves(r)
           /\ ended' = CountEnded(r.emits)
    /\ UNCHANGED <<connected, movers, threads>>

\* The caps that keep the state space finite.
Within(max_games, max_moves) ==
    /\ next_game <= max_games
    /\ \A g \in DOMAIN games : games[g].move_count <= max_moves

\* Two player names.
Next ==
    \/ \E sid \in Conns : Connect(sid)
    \/ \E sid \in Conns : Disconnect(sid)
    \/ \E sid \in Conns, raw \in RawNames : RegisterPlayer(sid, raw)
    \/ \E sid \in Conns : FindGame(sid) /\ Within(MaxGames, MaxMoves)'
    \/ \E sid \in Conns, game_id \in 1..next_game, mv \in MoveInputs :
           MakeMove(sid, game_id, mv) /\ Within(MaxGames, MaxMoves)'
    \/ \E sid \in Conns : Forfeit(sid)

Spec == Init /\ [][Next]_vars

\* Three player names, fewer games and moves.
NextWide ==
    \/ \E sid \in Conns : Connect(sid)
    \/ \E sid \in Conns : Disconnect(sid)
    \/ \E sid \in Conns, raw \in WideRawNames : RegisterPlayer(sid, raw)
    \/ \E sid \in Conns : FindGame(sid) /\ Within(WideGames, WideMoves)'
    \/ \E sid \in Conns, game_id \in 1..next_game, mv \in MoveInputs :
           MakeMove(sid, game_id, mv) /\ Within(WideGames, WideMoves)'
    \/ \E sid \in Conns : Forfeit(sid)

SpecWide == Init /\ [][NextWide]_vars

\* Three names on two connections, for sessions that share a player.
\* The names a connection registers under:
CrossRawNames == { <<"a">>, <<"b">>, <<"c">> }

NextCross ==
    \/ \E sid \in 1..CrossConns : Connect(sid)
    \/ \E sid \in 1..CrossConns : Disconnect(sid)
    \/ \E sid \in 1..CrossConns, raw \in CrossRawNames : RegisterPlayer(sid, raw)
    \/ \E sid \in 1..CrossConns : FindGame(sid) /\ Within(CrossGames, CrossMoves)'
    \/ \E sid \in 1..CrossConns, game_id \in 1..next_game, mv \in MoveInputs :
           MakeMove(sid, game_id, mv) /\ Within(CrossGames, CrossMoves)'
    \/ \E sid \in 1..CrossConns : Forfeit(sid)

SpecCross == Init /\ [][NextCross]_vars

\* ------------------------------------------------------ actions of threads
DisconnectLines ==
    {"d89", "d90", "d91", "d93", "d94", "d95", "d96", "d97", "d102", "d103", "d104"}

FindGameLines ==
    {"g126", "g128", "g129", "g130", "g135", "g136", "g147", "g148", "g149",
     "g169", "g170"}

MakeMoveLines == {"mm181", "mm184", "mm188", "mm191", "mm192", "mm202", "mm203"}

ForfeitLines ==
    {"f223", "f225", "f229", "f230", "f234", "f237", "f242", "f243", "f246",
     "c256", "c257", "c259", "c260", "c261", "c262", "c264"}

\* Thread t is inside a handler whose statements are lines.
Inside(t, lines) ==
    /\ t \in DOMAIN threads
    /\ threads[t].raised = ""
    /\ threads[t].pc \in lines

\* The event of connection sid gets a thread, which executes the handler's
\* test of player_sessions: an unregistered sid is answered at once
\* (disconnect: nothing to do; the others: 'Player not registered') and the
\* thread is over.
Starts(sid, frame) ==
    /\ Len(threads) < RaceThreads
    /\ threads' = IF sid \in DOMAIN player_sessions
                  THEN Append(threads, frame)
                  ELSE threads

\* The transport closes connection sid; handle_disconnect starts.
StartDisconnect(sid) ==
    /\ sid \in connected
    /\ connected' = connected \ {sid}
    /\ Starts(sid, Enter(sid, "d89"))
    /\ UNCHANGED <<games, active_games, player_sessions, player_games,
                   waiting_players, next_game, movers, ended>>

\* Connection sid sends find_game; handle_find_game starts.
StartFindGame(sid) ==
    /\ sid \in connected
    /\ Starts(sid, Enter(sid, "g126"))
    /\ UNCHANGED <<connected, games, active_games, player_sessions, player_games,
                   waiting_players, next_game, movers, ended>>

\* Connection sid sends make_move; handle_make_move starts.
StartMakeMove(sid, game_id, mv) ==
    /\ sid \in connected
    /\ Starts(sid, [Enter(sid, "mm181") EXCEPT !.game_id = game_id, !.mv = mv])
    /\ UNCHANGED <<connected, games, active_games, player_sessions, player_games,
                   waiting_players, next_game, movers, ended>>

\* Connection sid sends forfeit_game; handle_forfeit starts.
StartForfeit(sid) ==
    /\ sid \in connected
    /\ Starts(sid, Enter(sid, "f223"))
    /\ UNCHANGED <<connected, games, active_games, player_sessions, player_games,
                   waiting_players, next_game, movers, ended>>

\* What the next statement of thread t leaves, under step.
Runs(t, r) ==
    /\ Leaves(r)
    /\ threads' = [threads EXCEPT ![t] = r.f]

\* Thread t executes the next statement of handle_disconnect.
DisconnectStep(t) ==
    /\ Inside(t, DisconnectLines)
    /\ Runs(t, disconnect_step(Stores, threads[t]))
    /\ UNCHANGED <<connected, movers, ended>>

\* Thread t executes the next statement of handle_find_game.
FindGameStep(t) ==
    /\ Inside(t, FindGameLines)
    /\ Runs(t, find_game_step(Stores, threads[t]))
    /\ UNCHANGED <<connected, movers, ended>>

\* Thread t executes the next statement of handle_make_move; the move is
\* accepted, and noted in movers, when the thread increments move_count.
MakeMoveStep(t) ==
    /\ Inside(t, MakeMoveLines)
    /\ Runs(t, make_move_step(Stores, threads[t]))
    /\ movers' = IF threads[t].pc = "mm202"
                 THEN DictSet(movers, threads[t].game,
                              Append(ListOf(movers, threads[t].game),
                                     threads[t].player_name))
                 ELSE movers
    /\ UNCHANGED <<connected, ended>>

\* Thread t executes the next statement of handle_forfeit or cleanup_game;
\* the game_ended of line 246 is counted.
ForfeitStep(t) ==
    /\ Inside(t, ForfeitLines)
    /\ Runs(t, forfeit_step(Stores, threads[t]))
    /\ ended' = IF threads[t].pc = "f246"
                THEN DictSet(ended, threads[t].game_id,
                             CountOf(ended, threads[t].game_id) + 1)
                ELSE ended
    /\ UNCHANGED <<connected, movers>>

\* The names and the moves sent in the specification with threads.
RaceRawNames == { <<"a">>, <<"b">> }

RaceMoveInputs == { <<<<0, 0>>, <<0, 1>>>>, <<<<0, 0>>, <<0, 99>>>> }

\* The events run one at a time until RaceThreads of them are started as
\* threads, which run interleaved statement by statement with each other
\* and with the events still run in one piece.
NextRace ==
    \/ \E sid \in 1..RaceConns : Connect(sid)
    \/ \E sid \in 1..RaceConns, raw \in RaceRawNames : RegisterPlayer(sid, raw)
    \/ \E sid \in 1..RaceConns : FindGame(sid) /\ Within(RaceGames, RaceMoves)'
    \/ \E sid \in 1..RaceConns : StartDisconnect(sid)
    \/ \E sid \in 1..RaceConns : StartFindGame(sid)
    \/ \E sid \in 1..RaceConns, game_id \in 1..next_game, mv \in RaceMoveInputs :
           StartMakeMove(sid, game_id, mv)
    \/ \E sid \in 1..RaceConns : StartForfeit(sid)
    \/ \E t \in 1..RaceThreads : DisconnectStep(t)
    \/ \E t \in 1..RaceThreads : FindGameStep(t) /\ Within(RaceGames, RaceMoves)'
    \/ \E t \in 1..RaceThreads : MakeMoveStep(t) /\ Within(RaceGames, RaceMoves)'
    \/ \E t \in 1..RaceThreads : ForfeitStep(t)

SpecRace == Init /\ [][NextRace]_vars

\* ------------------------------------------------------------------ claims
\* The names that are player_white or player_black of game g.
Participants(g) == {games[g].player_white, games[g].player_black}

\* The registered sids whose name is player_name.
SidsOf(player_name) ==
    {sid \in DOMAIN player_sessions : player_sessions[sid] = player_name}

\* The accepted moves of game g so far: movers[g] has move_count entries, the
\* odd ones by player_white and the even ones by player_black, and turn_step
\* is the white value 0 after an even number of moves, the black value 2
\* after an odd number.
MovesAlternate(g) ==
    LET made == ListOf(movers, g)
    IN  /\ Len(made) = games[g].move_count
        /\ \A k \in 1..Len(made) :
               made[k] = IF k % 2 = 1 THEN games[g].player_white
                                      ELSE games[g].player_black
        /\ games[g].turn_step = IF games[g].move_count % 2 = 0 THEN 0 ELSE 2

\* One step on game g: move_count stays or grows by one, and turn_step
\* changes exactly when it grows.
CountsUp(g) ==
    /\ games'[g].move_count \in {games[g].move_count, games[g].move_count + 1}
    /\ (games'[g].turn_step # games[g].turn_step)
           <=> (games'[g].move_count = games[g].move_count + 1)

\* C1: the k-th accepted move of a game is made by player_white when k is odd
\* and by player_black when k is even, move_count is k after it, move_count
\* never decreases and turn_step toggles between 0 and 2 once per accepted
\* move.
C1_TurnAlternation ==
    /\ [](\A g \in DOMAIN games : MovesAlternate(g))
    /\ [][\A g \in DOMAIN games : CountsUp(g)]_vars

\* Both sides have moved once in some game.
C1_Witness ==
    \E g \in DOMAIN games :
        /\ games[g].move_count = 2
        /\ ListOf(movers, g) = <<games[g].player_white, games[g].player_black>>

\* The sessions in active_games that player_name is white or black of.
SessionsOf(player_name) ==
    {g \in active_games : player_name \in Participants(g)}

\* C2: every player name is a participant (player_white or player_black) of
\* at most one session present in active_games.
C2_OneSessionPerName ==
    \A g1 \in active_games, g2 \in active_games :
        g1 # g2 => Participants(g1) \cap Participants(g2) = {}

\* C3: while a session is in active_games, a find_game under the name of
\* either of its participants is rejected with 'Already in a game' and
\* leaves the stores (the queue among them) as they are.
C3_FindGameRejected ==
    \A g \in active_games :
        \A player_name \in Participants(g) :
            \A sid \in SidsOf(player_name) :
                handle_find_game(Stores, sid)
                    = Outcome(Stores, <<Error(sid, "Already in a game")>>)

\* C9: when a participant of a session disconnects, the session is paused,
\* has no winner, stays in active_games, and both participants' player_games
\* entries still map to it.  The case taken is the one where both entries
\* map to the session before the disconnect.
C9_DisconnectKeepsMappings ==
    [][\A sid \in DOMAIN player_sessions :
         \A g \in active_games :
             ( /\ Disconnect(sid)
               /\ player_sessions[sid] \in Participants(g)
               /\ \A p \in Participants(g) :
                      p \in DOMAIN player_games /\ player_games[p] = g )
             => /\ games'[g].game_status = "paused"
                /\ games'[g].winner = << >>
                /\ g \in active_games'
                /\ \A p \in Participants(g) :
                       p \in DOMAIN player_games' /\ player_games'[p] = g]_vars

\* find_game by sid pairs: one new game is made, the requester against the
\* head of the queue, and the head leaves the queue.
PairsWithHead(st, sid) ==
    LET r == handle_find_game(st, sid)
        created == r.st.active_games \ st.active_games
    IN  /\ Cardinality(created) = 1
        /\ \A g \in created :
               /\ g \notin DOMAIN st.games
               /\ {r.st.games[g].player_white, r.st.games[g].player_black}
                      = {st.player_sessions[sid], Head(st.waiting_players)}
        /\ r.st.waiting_players = Tail(st.waiting_players)

\* find_game by sid enqueues: the name goes to the end of the queue and no
\* game is made.
Enqueues(st, sid) ==
    LET r == handle_find_game(st, sid)
    IN  /\ r.st.waiting_players
               = Append(st.waiting_players, st.player_sessions[sid])
        /\ r.st.active_games = st.active_games
        /\ r.st.games = st.games

\* P1, P2 and P3 (the names of s1, s2, s3) call find_game in that order: P1
\* and P2 share the one new session and P3 alone is left waiting.
FirstTwoPaired(s1, s2, s3) ==
    LET r1 == handle_find_game(Stores, s1)
        r2 == handle_find_game(r1.st, s2)
        r3 == handle_find_game(r2.st, s3)
        created == r3.st.active_games \ active_games
    IN  /\ Cardinality(created) = 1
        /\ \A g \in created :
               {r3.st.games[g].player_white, r3.st.games[g].player_black}
                   = {player_sessions[s1], player_sessions[s2]}
        /\ r3.st.waiting_players = <<player_sessions[s3]>>

\* C4: matching is strict FIFO.  A registered player in no session who calls
\* find_game is paired with the head of the queue when the head is another
\* name, and the head leaves the queue; with an empty queue the player is
\* enqueued and no session is made.  From an empty queue, find_game by P1,
\* P2, P3 in that order pairs P1 with P2 and leaves P3 alone in the queue.
C4_FifoMatching ==
    /\ \A sid \in DOMAIN player_sessions :
           SessionsOf(player_sessions[sid]) = {} =>
               /\ ( waiting_players # << >>
                    /\ Head(waiting_players) # player_sessions[sid] )
                      => PairsWithHead(Stores, sid)
               /\ waiting_players = << >> => Enqueues(Stores, sid)
    /\ \A s1 \in DOMAIN player_sessions, s2 \in DOMAIN player_sessions,
          s3 \in DOMAIN player_sessions :
           ( /\ waiting_players = << >>
             /\ Cardinality({player_sessions[s1], player_sessions[s2],
                             player_sessions[s3]}) = 3
             /\ \A x \in {s1, s2, s3} : SessionsOf(player_sessions[x]) = {} )
           => FirstTwoPaired(s1, s2, s3)

\* P1 and P2 have been paired and a third name waits alone.
C4_Witness ==
    \E g \in active_games :
        /\ games[g].move_count = 0
        /\ games[g].game_status = "active"
        /\ Len(waiting_players) = 1
        /\ waiting_players[1] \notin Participants(g)
        /\ \A p \in Participants(g) \cup {waiting_players[1]} : SidsOf(p) # {}

\* C5: no self-pairing.  A find_game by the player whose name is at the head
\* of the queue makes no session and leaves the queue as it is, and no
\* session in active_games has player_white equal to player_black.
C5_NoSelfPairing ==
    /\ \A sid \in DOMAIN player_sessions :
           ( waiting_players # << >>
             /\ Head(waiting_players) = player_sessions[sid] )
           => LET r == handle_find_game(Stores, sid)
              IN  /\ r.st.active_games = active_games
                  /\ r.st.games = games
                  /\ r.st.waiting_players = waiting_players
    /\ \A g \in active_games : games[g].player_white # games[g].player_black

\* The head of the queue is the name of a registered connection that is not
\* held back by the Already-in-a-game test, while a session exists.
C5_Witness ==
    /\ active_games # {}
    /\ waiting_players # << >>
    /\ \E sid \in SidsOf(Head(waiting_players)) :
           ~AlreadyInGame(Stores, player_sessions[sid])

\* The forfeit by sid ends a session (it emits game_ended).
EndsSession(st, sid) ==
    Emitted(handle_forfeit(st, sid).emits, "game_ended") # << >>

\* A forfeit_game by sid right after its forfeit_game that ended a session:
\* the stores stay as the first one left them and the caller gets message.
SecondForfeitGets(sid, message) ==
    LET r1 == handle_forfeit(Stores, sid)
        r2 == handle_forfeit(r1.st, sid)
    IN  /\ r2.st = r1.st
        /\ r2.emits = <<Error(sid, message)>>

\* game_ended was emitted at most once for g, and once it was, g is not in
\* active_games and no name maps to g.
EndedOnce(g) ==
    /\ CountOf(ended, g) <= 1
    /\ CountOf(ended, g) = 1 =>
           /\ g \notin active_games
           /\ \A p \in DOMAIN player_games : player_games[p] # g

\* cleanup_game on an id it has already removed, and a second cleanup_game
\* on an id still present, change nothing.
CleanupIdempotent(g) ==
    /\ g \notin active_games => cleanup_game(Stores, g) = Stores
    /\ cleanup_game(cleanup_game(Stores, g), g) = cleanup_game(Stores, g)

\* C6 as stated: as C6_TerminationOnce, with the second forfeit_game of the
\* same player answered 'Game not found'.
C6_SecondForfeitNotFound ==
    /\ \A g \in DOMAIN games : EndedOnce(g) /\ CleanupIdempotent(g)
    /\ \A sid \in DOMAIN player_sessions :
           EndsSession(Stores, sid) => SecondForfeitGets(sid, "Game not found")

\* C6, amended: at most one game_ended is ever emitted for a session id;
\* after it the session is absent from active_games and no name maps to it;
\* a second forfeit_game from the same player changes no state, emits no
\* game_ended and is answered 'Not in a game'; a second cleanup_game on the
\* same id changes no state.
C6_TerminationOnce ==
    /\ \A g \in DOMAIN games : EndedOnce(g) /\ CleanupIdempotent(g)
    /\ \A sid \in DOMAIN player_sessions :
           EndsSession(Stores, sid) => SecondForfeitGets(sid, "Not in a game")

\* A session has been ended by a forfeit and the player who forfeited it is
\* still registered and in no other game.
C6_Witness ==
    \E g \in DOMAIN games :
        /\ CountOf(ended, g) = 1
        /\ games[g].game_status = "finished"
        /\ \E p \in Participants(g) \ {games[g].winner} :
               /\ SidsOf(p) # {}
               /\ p \notin DOMAIN player_games

\* The name register_player is to bind for raw: raw from its first to its
\* last character that is not whitespace, cut after NameLimit characters.
\* raw has such a character.
TrimmedAndCut(raw) ==
    LET solid == {k \in 1..Len(raw) : raw[k] \notin Whitespace}
        first == CHOOSE k \in solid : \A j \in solid : k <= j
        last == CHOOSE k \in solid : \A j \in solid : j <= k
        stop == IF last < first + NameLimit THEN last ELSE first + NameLimit - 1
    IN  [i \in 1..(stop - first + 1) |-> raw[first + i - 1]]

\* raw is empty or all whitespace.
IsBlank(raw) == \A k \in 1..Len(raw) : raw[k] \in Whitespace

\* One step seen from connection sid: a register_player with a name binds
\* the trimmed and cut name, a blank one binds nothing, a disconnect unbinds,
\* and nothing but sid's own disconnect or register_player changes what sid
\* is bound to.
RegistryStep(sid) ==
    /\ \A raw \in WideRawNames :
           RegisterPlayer(sid, raw) =>
               IF IsBlank(raw)
               THEN player_sessions' = player_sessions
               ELSE /\ sid \in DOMAIN player_sessions'
                    /\ player_sessions'[sid] = TrimmedAndCut(raw)
    /\ Disconnect(sid) => sid \notin DOMAIN player_sessions'
    /\ ( sid \in DOMAIN player_sessions
         /\ ( sid \notin DOMAIN player_sessions'
              \/ player_sessions'[sid] # player_sessions[sid] ) )
       => \/ Disconnect(sid)
          \/ \E raw \in WideRawNames : RegisterPlayer(sid, raw)

\* C7: the identity registry has no leaks.  After a successful
\* register_player on connection c, player_sessions[c] is the sanitized
\* name until c disconnects or registers again; events on other connections
\* never change it; after c's disconnect c is absent; and the keys of
\* player_sessions are live connections.
C7_RegistryNoLeaks ==
    /\ [](DOMAIN player_sessions \subseteq connected)
    /\ [][\A sid \in Conns : RegistryStep(sid)]_vars

\* Two connections are registered, one under a name cut to the limit and
\* one under a trimmed name, and a third is live and unregistered.
C7_Witness ==
    /\ \E sid \in DOMAIN player_sessions : Len(player_sessions[sid]) = NameLimit
    /\ \E sid \in DOMAIN player_sessions : player_sessions[sid] = <<"a">>
    /\ connected \ DOMAIN player_sessions # {}

\* The participant of g that is not player_name.
OtherSide(g, player_name) ==
    IF player_name = games[g].player_white
    THEN games[g].player_black
    ELSE games[g].player_white

\* The forfeit_game of sid ends session g for player_name: g gets the other
\* participant as winner and is finished, game_ended with that winner and
\* the forfeiter goes to its room, g leaves active_games, and find_game's
\* Already-in-a-game test holds back neither participant afterwards.
ForfeitEnds(sid, g, player_name) ==
    LET r == handle_forfeit(Stores, sid)
    IN  /\ r.st.games[g].winner = OtherSide(g, player_name)
        /\ r.st.games[g].game_status = "finished"
        /\ r.st.games[g].game_over
        /\ r.emits = <<ToRoom(g, "game_ended",
                              [winner |-> OtherSide(g, player_name),
                               reason |-> "forfeit",
                               forfeiter |-> player_name])>>
        /\ g \notin r.st.active_games
        /\ \A p \in Participants(g) : ~AlreadyInGame(r.st, p)

\* C8: forfeit_game by a participant of a session, active or paused, ends
\* that session with the other participant as winner, and afterwards
\* find_game by either former participant is not rejected as 'Already in a
\* game'.
C8_ForfeitByParticipant ==
    \A sid \in DOMAIN player_sessions :
        SessionsOf(player_sessions[sid]) # {}
        => \E g \in SessionsOf(player_sessions[sid]) :
               ForfeitEnds(sid, g, player_sessions[sid])

\* Game g is made in this step by the find_game of a registered connection:
\* the requester is player_white, the head of the queue is player_black, the
\* game is active with white to move, no move made and no winner, and both
\* names map to g.
MadeByPairing(g) ==
    \E sid \in DOMAIN player_sessions :
        /\ FindGame(sid)
        /\ waiting_players # << >>
        /\ games'[g].game_id = g
        /\ games'[g].player_white = player_sessions[sid]
        /\ games'[g].player_black = Head(waiting_players)
        /\ games'[g].game_status = "active"
        /\ games'[g].turn_step = 0
        /\ get_current_player(games'[g]) = "white"
        /\ games'[g].move_count = 0
        /\ games'[g].winner = << >>
        /\ ~games'[g].game_over
        /\ g \in active_games'
        /\ \A p \in {player_sessions[sid], Head(waiting_players)} :
               p \in DOMAIN player_games' /\ player_games'[p] = g

\* C10: every session is created by a pairing, with the requester as
\* player_white and the dequeued waiting player as player_black, status
\* active, the turn on white, move_count 0, no winner, and both names mapped
\* to the new session id in player_games.
C10_NewSession ==
    [][\A g \in DOMAIN games' : g \notin DOMAIN games => MadeByPairing(g)]_vars

\* A second session has just been made: it is untouched and both of its
\* players map to it.
C10_Witness ==
    \E g \in active_games :
        /\ g = next_game
        /\ g > 1
        /\ games[g].move_count = 0
        /\ games[g].game_status = "active"
        /\ \A p \in Participants(g) :
               p \in DOMAIN player_games /\ player_games[p] = g

\* The name whose turn it is in game: player_white on the white value 0 of
\* turn_step, player_black on the black value 2.
SideToMove(game) ==
    IF game.turn_step = 0 THEN game.player_white ELSE game.player_black

\* pos lies outside 0 <= x < 16, 0 <= y < 10.
OffBoard(pos) == pos[1] \notin 0..15 \/ pos[2] \notin 0..9

\* The make_move is turned down with message: the stores, and with them the
\* session's move_count, turn_step, status and board, stay as they are, and
\* the one event emitted is the error to the caller, no move_update.
Rejected(sid, game_id, mv, message) ==
    handle_make_move(Stores, sid, game_id, mv)
        = Outcome(Stores, <<Error(sid, message)>>)

\* C11: a make_move on a session by a caller who is not the side to move is
\* rejected with 'Not your turn', whatever the positions; by the side to
\* move with from_pos or to_pos off the board it is rejected with 'Invalid
\* move'; either way the session is unchanged and no move_update goes out.
C11_MoveRejections ==
    \A sid \in DOMAIN player_sessions, g \in active_games, mv \in MoveInputs :
        /\ player_sessions[sid] # SideToMove(games[g])
               => Rejected(sid, g, mv, "Not your turn")
        /\ ( player_sessions[sid] = SideToMove(games[g])
             /\ (OffBoard(mv[1]) \/ OffBoard(mv[2])) )
               => Rejected(sid, g, mv, "Invalid move")

\* Black is to move in a session, and both its players are registered: each
\* rejection has a caller.
C11_Witness ==
    \E g \in active_games :
        /\ games[g].move_count = 1
        /\ SidsOf(games[g].player_white) # {}
        /\ SidsOf(games[g].player_black) # {}

\* C14: the waiting queue holds each name at most once, and every name in it
\* is the registered name of some live connection (so no entry outlives the
\* connection that enqueued it, also when that connection took another name
\* while it waited).
C14_QueueOwned ==
    /\ \A i, j \in 1..Len(waiting_players) :
           waiting_players[i] = waiting_players[j] => i = j
    /\ \A i \in 1..Len(waiting_players) :
           \E sid \in connected :
               /\ sid \in DOMAIN player_sessions
               /\ player_sessions[sid] = waiting_players[i]

\* The place of a status in the order waiting, active, paused, finished.
StatusRank(status) ==
    CASE status = "waiting"  -> 0
      [] status = "active"   -> 1
      [] status = "paused"   -> 2
      [] status = "finished" -> 3

LocationsOf(s, player_name) ==
    IF player_name = s.player_white THEN s.white_locations ELSE s.black_locations

\* The squares of the other side.
OtherLocationsOf(s, player_name) ==
    IF player_name = s.player_white THEN s.black_locations ELSE s.white_locations

\* C16: when a make_move is accepted, the state broadcast with move_update
\* has move_count one higher and the turn flipped, the moving side's piece
\* that stood at from_pos stands at to_pos, and no other piece has moved.
C16_BoardFollowsMove ==
    \A sid \in DOMAIN player_sessions, g \in active_games, mv \in MoveInputs :
        LET sent == Emitted(handle_make_move(Stores, sid, g, mv).emits,
                            "move_update")
            old  == games[g]
            me   == player_sessions[sid]
        IN  sent # <<>> =>
                LET new == sent[1].data.game_state
                IN  /\ new.move_count = old.move_count + 1
                    /\ new.turn_step # old.turn_step
                    /\ \A i \in 1..Len(LocationsOf(old, me)) :
                           LocationsOf(new, me)[i] =
                               IF LocationsOf(old, me)[i] = mv[1]
                               THEN mv[2]
                               ELSE LocationsOf(old, me)[i]
                    /\ OtherLocationsOf(new, me) = OtherLocationsOf(old, me)

\* C17: move_count and turn_step of a session change only while its status
\* is active; a make_move on a paused session is not accepted.
C17_MovesOnlyWhileActive ==
    [][ \A g \in DOMAIN games :
            ( games'[g].move_count # games[g].move_count
              \/ games'[g].turn_step # games[g].turn_step )
                => games[g].game_status = "active" ]_vars

\* C19: every session in active_games has a participant whose player_games
\* entry maps to it, so that a forfeit_game can end it.
C19_Reclaimable ==
    \A g \in active_games :
        \E p \in Participants(g) :
            p \in DOMAIN player_games /\ player_games[p] = g

\* C20: with handlers run one at a time the waiting queue never holds more
\* than one name, and a find_game appends a name only to an empty queue.
C20_QueueAtMostOne ==
    /\ Len(waiting_players) <= 1
    /\ \A sid \in DOMAIN player_sessions :
           LET after == handle_find_game(Stores, sid).st.waiting_players
           IN  Len(after) > Len(waiting_players) => waiting_players = << >>

\* A name waits while a session is in active_games whose two players are
\* both registered: the find_game of either is answered without a second
\* entry in the queue.
C20_Witness ==
    /\ Len(waiting_players) = 1
    /\ \E g \in active_games :
           \A p \in Participants(g) : SidsOf(p) # {}

\* C18: the cleanup_game(g) of a forfeit removes g from active_games and
\* deletes a participant's player_games entry only if it maps to g, a name
\* that maps to another session keeping its entry; so every session in
\* active_games whose status is active has both participants mapped to it
\* in player_games.
C18_ActiveSessionsMapped ==
    /\ \A sid \in DOMAIN player_sessions :
           LET me == player_sessions[sid]
               after == handle_forfeit(Stores, sid).st
           IN  (me \in DOMAIN player_games /\ player_games[me] \in active_games)
                   => /\ after.active_games = active_games \ {player_games[me]}
                      /\ \A p \in DOMAIN player_games :
                             player_games[p] # player_games[me]
                                 => /\ p \in DOMAIN after.player_games
                                    /\ after.player_games[p] = player_games[p]
    /\ \A g \in active_games :
           games[g].game_status = "active" =>
               \A p \in Participants(g) :
                   p \in DOMAIN player_games /\ player_games[p] = g

\* C12: with make_move handlers run at the same time, their statements
\* interleaved, a turn takes at most one move: move_count is the number of
\* accepted moves and no name is accepted for two moves in a row.
C12_OneMovePerTurn ==
    \A g \in DOMAIN movers :
        /\ Len(movers[g]) = games[g].move_count
        /\ \A k \in 1..(Len(movers[g]) - 1) : movers[g][k] # movers[g][k + 1]

\* C13: a handle_disconnect run at the same time as other handlers, their
\* statements interleaved, is never ended by an exception from a lookup or
\* deletion of an entry that another handler removed, and never writes to
\* a session that is no longer in active_games.
C13_DisconnectSafe ==
    /\ [](\A t \in DOMAIN threads :
              threads[t].pc \in DisconnectLines => threads[t].raised = "")
    /\ [][ \A t \in DOMAIN threads :
               (threads[t].pc = "d97" /\ threads'[t] # threads[t])
                   => threads[t].game \in active_games ]_vars

====
